---- MODULE Spec2Model ----
(***************************************************************************)
(* Model of the JHA2AI command interpreter (backend/jha2_ai.py), its path  *)
(* guard (backend/utils.py) and the download endpoint (backend/app.py).    *)
(*                                                                         *)
(* Python strings are sequences of one-character strings, so that strip,   *)
(* split, startswith and the substring test are computed, not assumed.     *)
(* None is the empty option <<>>, a present value v is <<v>>.              *)
(***************************************************************************)
EXTENDS Integers, Sequences, FiniteSets, TLC

(***************************************************************************)
(* Bounds of the model.                                                    *)
(***************************************************************************)
\* longest requested filename, in path components
MaxSegs == 3

(***************************************************************************)
(* str methods.                                                            *)
(***************************************************************************)
\* str.startswith
startswith(s, p) == Len(p) <= Len(s) /\ SubSeq(s, 1, Len(p)) = p

\* str.endswith
endswith(s, p) == Len(p) <= Len(s) /\ SubSeq(s, Len(s) - Len(p) + 1, Len(s)) = p

\* str.find, 1-based; 0 when sub does not occur
find(s, sub) ==
    LET hits == {i \in 1..(Len(s) - Len(sub) + 1) : SubSeq(s, i, i + Len(sub) - 1) = sub}
    IN IF hits = {} THEN 0 ELSE CHOOSE i \in hits : \A j \in hits : i <= j

\* the `sub in s` test on strings
contains(s, sub) == find(s, sub) # 0

\* the whitespace str.strip and str.split() remove
IsSpace(c) == c \in {" ", "\t", "\n"}

RECURSIVE lstrip(_)
lstrip(s) == IF s # <<>> /\ IsSpace(Head(s)) THEN lstrip(Tail(s)) ELSE s

RECURSIVE rstrip(_)
rstrip(s) == IF s # <<>> /\ IsSpace(s[Len(s)]) THEN rstrip(SubSeq(s, 1, Len(s) - 1)) ELSE s

\* str.strip()
strip(s) == rstrip(lstrip(s))

\* length of the leading run of non-whitespace characters
RECURSIVE WordLen(_)
WordLen(s) == IF s = <<>> \/ IsSpace(Head(s)) THEN 0 ELSE 1 + WordLen(Tail(s))

\* str.split(): the whitespace-separated tokens, none of them empty
RECURSIVE split(_)
split(s) ==
    LET t == lstrip(s)
        n == WordLen(t)
    IN IF t = <<>> THEN <<>>
       ELSE <<SubSeq(t, 1, n)>> \o split(SubSeq(t, n + 1, Len(t)))

\* str.split(sep, 1): one piece when sep does not occur, else the text before
\* and the text after its first occurrence
split1(s, sep) ==
    LET i == find(s, sep)
    IN IF i = 0 THEN <<s>>
       ELSE <<SubSeq(s, 1, i - 1), SubSeq(s, i + Len(sep), Len(s))>>

\* str.split(sep): every piece between occurrences of the one-character sep
RECURSIVE splitsep(_, _)
splitsep(s, sep) ==
    LET i == find(s, <<sep>>)
    IN IF i = 0 THEN <<s>>
       ELSE <<SubSeq(s, 1, i - 1)>> \o splitsep(SubSeq(s, i + 1, Len(s)), sep)

\* sep.join(parts)
RECURSIVE joinsep(_, _)
joinsep(parts, sep) ==
    IF parts = <<>> THEN <<>>
    ELSE IF Len(parts) = 1 THEN parts[1]
    ELSE parts[1] \o <<sep>> \o joinsep(Tail(parts), sep)

(***************************************************************************)
(* os.path (posixpath) as secure_path calls it.                            *)
(***************************************************************************)
\* the process's current directory, which abspath resolves relative roots against
Cwd == <<"/", "a">>

\* os.path.join(a, b)
join(a, b) ==
    IF startswith(b, <<"/">>) THEN b
    ELSE IF a = <<>> \/ endswith(a, <<"/">>) THEN a \o b
    ELSE a \o <<"/">> \o b

\* the component loop of posixpath.normpath
RECURSIVE NormComps(_, _, _)
NormComps(comps, new_comps, initial_slashes) ==
    IF comps = <<>> THEN new_comps
    ELSE LET comp == Head(comps)
             rest == Tail(comps)
         IN IF comp = <<>> \/ comp = <<".">> THEN NormComps(rest, new_comps, initial_slashes)
            ELSE IF \/ comp # <<".", ".">>
                    \/ (initial_slashes = 0 /\ new_comps = <<>>)
                    \/ (new_comps # <<>> /\ new_comps[Len(new_comps)] = <<".", ".">>)
                 THEN NormComps(rest, Append(new_comps, comp), initial_slashes)
            ELSE IF new_comps # <<>>
                 THEN NormComps(rest, SubSeq(new_comps, 1, Len(new_comps) - 1), initial_slashes)
            ELSE NormComps(rest, new_comps, initial_slashes)

\* posixpath.normpath
normpath(path) ==
    IF path = <<>> THEN <<".">>
    ELSE LET initial_slashes ==
                 IF ~startswith(path, <<"/">>) THEN 0
                 ELSE IF startswith(path, <<"/", "/">>) /\ ~startswith(path, <<"/", "/", "/">>)
                      THEN 2 ELSE 1
             body == joinsep(NormComps(splitsep(path, "/"), <<>>, initial_slashes), "/")
             out == (IF initial_slashes = 2 THEN <<"/", "/">>
                     ELSE IF initial_slashes = 1 THEN <<"/">> ELSE <<>>) \o body
         IN IF out = <<>> THEN <<".">> ELSE out

\* posixpath.abspath
abspath(path) == normpath(IF startswith(path, <<"/">>) THEN path ELSE join(Cwd, path))

(***************************************************************************)
(* utils.secure_path                                                       *)
(***************************************************************************)
\* a text the program produces: the literal template, the string formatted into
\* it, the number formatted into it (<<>> when none), the text of the exception
\* formatted into it ("" when none) and the mapping it carries (<<>> when none)
Msg(lit, arg, num, err, data) ==
    [lit |-> lit, arg |-> arg, num |-> num, err |-> err, data |-> data]

\* a literal text
Lit(lit) == Msg(lit, <<>>, <<>>, "", <<>>)

\* one call of self.callback(kind, msg)
Note(kind, msg) == [kind |-> kind, msg |-> msg]

\* secure_path: the path is <<>> for None
secure_path(filename, working_directory) ==
    LET base_dir == abspath(working_directory)
        requested_path == abspath(join(base_dir, filename))
    IN IF ~startswith(requested_path, base_dir)
       THEN [path |-> <<>>, notes |-> <<Note("error", Lit("Error: Invalid file path."))>>]
       ELSE [path |-> <<requested_path>>, notes |-> <<>>]

(***************************************************************************)
(* Literals of the program.                                                *)
(***************************************************************************)
S_run == <<"r", "u", "n">>
S_print == <<"p", "r", "i", "n", "t">>
S_def == <<"d", "e", "f">>
S_console_log == <<"c", "o", "n", "s", "o", "l", "e", ".", "l", "o", "g">>
S_python == <<"p", "y", "t", "h", "o", "n">>
S_node == <<"n", "o", "d", "e">>
S_bash == <<"b", "a", "s", "h">>
S_echo == <<"e", "c", "h", "o">>
S_dash_c == <<"-", "c">>
S_dash_e == <<"-", "e">>
S_True == <<"T", "r", "u", "e">>
S_commands == <<"c", "o", "m", "m", "a", "n", "d", "s">>
S_personas == <<"p", "e", "r", "s", "o", "n", "a", "s">>
C_help == <<"/", "h", "e", "l", "p">>
C_reset == <<"/", "r", "e", "s", "e", "t">>
C_model == <<"/", "m", "o", "d", "e", "l">>
C_persona == <<"/", "p", "e", "r", "s", "o", "n", "a">>
C_quit == <<"/", "q", "u", "i", "t">>
C_edit == <<"/", "e", "d", "i", "t">>
C_run == <<"/", "r", "u", "n">>
C_show == <<"/", "s", "h", "o", "w">>
C_webget == <<"/", "w", "e", "b", "g", "e", "t">>
C_webrequest == <<"/", "w", "e", "b", "r", "e", "q", "u", "e", "s", "t">>
C_describe_image == <<"/", "d", "e", "s", "c", "r", "i", "b", "e", "_", "i", "m", "a", "g", "e">>
C_preferences == <<"/", "p", "r", "e", "f", "e", "r", "e", "n", "c", "e", "s">>
C_list == <<"/", "l", "i", "s", "t">>
DefaultModel == <<"m", "i", "s", "t", "r", "a", "l", "a", "i", "/", "m", "i", "s", "t", "r", "a", "l", "-", "7", "b", "-", "i", "n", "s", "t", "r", "u", "c", "t">>
DefaultPersona == <<"a", "u", "t", "o", "n", "o", "m", "o", "u", "s", " ", "a", "s", "s", "i", "s", "t", "a", "n", "t">>
DefaultPrompt == <<"Y", "o", "u", " ", "a", "r", "e", " ", "a", "n", " ", "a", "d", "v", "a", "n", "c", "e", "d", " ", "A", "I", " ", "a", "s", "s", "i", "s", "t", "a", "n", "t", ".">>
K_preferred_language == <<"p", "r", "e", "f", "e", "r", "r", "e", "d", "_", "l", "a", "n", "g", "u", "a", "g", "e">>
K_confirm_destructive == <<"c", "o", "n", "f", "i", "r", "m", "_", "d", "e", "s", "t", "r", "u", "c", "t", "i", "v", "e">>

(***************************************************************************)
(* Python values.  A dict is the sequence of its <<key, value>> items in   *)
(* insertion order, with no key twice.  A preference value keeps its type. *)
(***************************************************************************)
PyStr(s) == [t |-> "str", v |-> s]
PyTrue == [t |-> "bool", v |-> S_True]

\* key in d
dict_has(d, k) == \E i \in 1..Len(d) : d[i][1] = k

\* d[k] = v
dict_set(d, k, v) ==
    IF dict_has(d, k)
    THEN [i \in 1..Len(d) |-> IF d[i][1] = k THEN <<k, v>> ELSE d[i]]
    ELSE Append(d, <<k, v>>)

\* d[k], for a key of d
dict_get(d, k) == d[CHOOSE i \in 1..Len(d) : d[i][1] = k][2]

\* list(d.keys())
dict_keys(d) == [i \in 1..Len(d) |-> d[i][1]]

\* the argument a handler receives: a str (from the "run" trigger) or the
\* list of tokens the router splits off
ArgStr(s) == [t |-> "str", str |-> s, list |-> <<>>]
ArgList(l) == [t |-> "list", str |-> <<>>, list |-> l]

(***************************************************************************)
(* The session: self.state, self.chat_history and the preferences file.    *)
(***************************************************************************)
VARIABLES
    model,               \* state['model']
    persona,             \* state['persona']
    available_personas,  \* state['available_personas']
    chat_history,        \* self.chat_history
    history_types,       \* state['history_types']
    last_code,           \* state['last_code'], <<>> for None
    last_language,       \* state['last_language'], <<>> for None
    preferences,         \* state['preferences']
    prefs_file,          \* the mapping stored in preferences.json
    hf_key,              \* config['huggingface_api_key'] is set
    alive,               \* the process has not exited
    last_input,          \* the line of the latest process_input call, <<>> before the first
    pre,                 \* the session as it was when that call started
    called,              \* the handlers that call invoked, with their arguments
    raised,              \* the exception that left the handler to its caller, "" when none
    response,            \* what interpret_natural_language returned, <<>> for None
    notes,               \* the callback notifications of that call, in order
    spawned,             \* the argument vectors of the child processes it started
    child,               \* how each of those children ended
    running,             \* which of those children still run after the call
    working_directory,   \* state['working_directory']
    sp_filename,         \* the filename of the latest secure_path call, <<>> before the first
    sp_result,           \* what that call returned and notified
    dc_code,             \* the code of the latest detect_language call, <<>> before the first
    dc_result,           \* what that call returned
    dl_filename,         \* the filename of the latest download request, <<>> before the first
    dl_result            \* what download_file did for it

session_vars == <<model, persona, available_personas, chat_history, history_types,
                  last_code, last_language, preferences, prefs_file, hf_key, alive>>
call_vars == <<last_input, pre, called, raised, response, notes, spawned, child, running>>
path_vars == <<working_directory, sp_filename, sp_result>>
detect_vars == <<dc_code, dc_result>>
download_vars == <<dl_filename, dl_result>>
vars == <<session_vars, call_vars, path_vars, detect_vars, download_vars>>

\* the session as one record, as the handlers read and write it
Session ==
    [model |-> model, persona |-> persona, available_personas |-> available_personas,
     chat_history |-> chat_history, history_types |-> history_types,
     last_code |-> last_code, last_language |-> last_language,
     preferences |-> preferences, prefs_file |-> prefs_file]

\* what a handler did: the session it leaves, its notifications, its return
\* value (<<>> for None), the exception it raised ("" for none), the handlers
\* invoked, the children started and how they ended
Out(s, n, ret, exc) ==
    [s |-> s, notes |-> n, ret |-> ret, exc |-> exc,
     called |-> <<>>, spawned |-> <<>>, child |-> <<>>]

(***************************************************************************)
(* The /run pipeline: Language Detector, Command Synthesizer, Executor.    *)
(***************************************************************************)
S_javascript == <<"j", "a", "v", "a", "s", "c", "r", "i", "p", "t">>
S_unknown == <<"u", "n", "k", "n", "o", "w", "n">>
S_sql == <<"s", "q", "l">>

\* detect_language that also knows SQL by its SELECT
detect_language_sql(code) ==
    IF startswith(strip(code), S_print) \/ contains(code, S_def) THEN S_python
    ELSE IF startswith(strip(code), S_console_log) THEN S_javascript
    ELSE IF startswith(strip(code), <<"S", "E", "L", "E", "C", "T">>) THEN S_sql
    ELSE S_unknown

\* detect_language that tries the javascript rule before the python rule
detect_language_js_first(code) ==
    IF startswith(strip(code), S_console_log) THEN S_javascript
    ELSE IF startswith(strip(code), S_print) \/ contains(code, S_def) THEN S_python
    ELSE S_unknown

\* detect_language
detect_language(code) ==
    IF startswith(strip(code), S_print) \/ contains(code, S_def) THEN S_python
    ELSE IF startswith(strip(code), S_console_log) THEN S_javascript
    ELSE S_unknown

\* get_command: the argument vector, or the ValueError it raises
get_command(language, code) ==
    IF language = S_python THEN [argv |-> <<S_python, S_dash_c, code>>, exc |-> ""]
    ELSE IF language = S_javascript THEN [argv |-> <<S_node, S_dash_e, code>>, exc |-> ""]
    ELSE IF language = S_bash THEN [argv |-> <<S_bash, S_dash_c, code>>, exc |-> ""]
    ELSE IF language = S_sql THEN [argv |-> <<S_echo, code>>, exc |-> ""]
    ELSE [argv |-> <<>>, exc |-> "ValueError"]

\* how a child process can end: it exits with a return code and its captured
\* output, it is still running when the timeout expires, or it cannot be started
Exited(code, stdout, stderr) ==
    [kind |-> "exit", code |-> code, stdout |-> stdout, stderr |-> stderr]
TimedOut == [kind |-> "timeout", code |-> 0, stdout |-> <<>>, stderr |-> <<>>]
SpawnFailed == [kind |-> "spawnfail", code |-> 0, stdout |-> <<>>, stderr |-> <<>>]

\* subprocess.run(command, ..., timeout=25): whether the child still runs when
\* the call has returned or raised.  A child that outlives the timeout is
\* killed and waited for before TimeoutExpired is raised.
child_running_after(oc) ==
    IF oc.kind = "spawnfail" THEN FALSE    \* no child was created
    ELSE IF oc.kind = "timeout" THEN FALSE \* process.kill(); process.wait()
    ELSE FALSE                             \* communicate() saw it exit

\* execute_command that tests and returns the combined output untrimmed
execute_command_untrimmed(command, oc) ==
    IF oc.kind = "timeout" THEN Lit("Error: Code execution timed out (25 seconds).")
    ELSE IF oc.kind = "spawnfail"
         THEN Msg("Error executing command: {}", <<>>, <<>>, "OSError", <<>>)
    ELSE IF oc.code # 0
         THEN Msg("Error executing command: {}", <<>>, <<oc.code>>,
                  "Command failed with return code {}", <<>>)
    ELSE LET combined_output == oc.stdout \o oc.stderr
         IN IF combined_output # <<>>
            THEN Msg("{}", combined_output, <<>>, "", <<>>)
            ELSE Lit("No output generated.")

\* execute_command whose `except Exception` clause stands before the
\* `except subprocess.TimeoutExpired` clause
execute_command_generic_first(command, oc) ==
    IF oc.kind = "timeout"
    THEN Msg("Error executing command: {}", <<>>, <<>>, "TimeoutExpired", <<>>)
    ELSE IF oc.kind = "spawnfail"
         THEN Msg("Error executing command: {}", <<>>, <<>>, "OSError", <<>>)
    ELSE IF oc.code # 0
         THEN Msg("Error executing command: {}", <<>>, <<oc.code>>,
                  "Command failed with return code {}", <<>>)
    ELSE LET combined_output == oc.stdout \o oc.stderr
         IN IF strip(combined_output) # <<>>
            THEN Msg("{}", strip(combined_output), <<>>, "", <<>>)
            ELSE Lit("No output generated.")

\* execute_command, for a child that ends as oc: always a text
execute_command(command, oc) ==
    IF oc.kind = "timeout" THEN Lit("Error: Code execution timed out (25 seconds).")
    ELSE IF oc.kind = "spawnfail"
         THEN Msg("Error executing command: {}", <<>>, <<>>, "OSError", <<>>)
    ELSE IF oc.code # 0
         THEN Msg("Error executing command: {}", <<>>, <<oc.code>>,
                  "Command failed with return code {}", <<>>)
    ELSE LET combined_output == oc.stdout \o oc.stderr
         IN IF strip(combined_output) # <<>>
            THEN Msg("{}", strip(combined_output), <<>>, "", <<>>)
            ELSE Lit("No output generated.")

\* truth value of a handler argument: a non-empty str or list
truthy(a) == IF a.t = "str" THEN a.str # <<>> ELSE a.list # <<>>

\* run_code that records the code only when the child exited with code 0
run_code_records_on_success(s, code, language, oc) ==
    IF language = <<>> \/ language = <<<<>>>>
    THEN Out(s, <<>>, <<Lit("Language not detected. Please specify.")>>, "")
    ELSE LET command == get_command(language[1], code)
             result == execute_command(command.argv, oc)
         IN IF command.exc # ""
            THEN Out(s, <<>>,
                     <<Msg("Error during code execution: {}", language[1], <<>>,
                           "Unsupported language '{}'.", <<>>)>>, "")
            ELSE [s |-> IF oc.kind = "exit" /\ oc.code = 0
                        THEN [s EXCEPT !.last_code = <<code>>, !.last_language = language]
                        ELSE s,
                  notes |-> <<Note("command_output", result)>>,
                  ret |-> <<result>>, exc |-> "", called |-> <<>>,
                  spawned |-> <<command.argv>>, child |-> <<oc>>]

\* cmd_run from `if not language` on, for the code and language it settled on
run_code(s, code, language, oc) ==
    IF language = <<>> \/ language = <<<<>>>>
    THEN Out(s, <<>>, <<Lit("Language not detected. Please specify.")>>, "")
    ELSE LET command == get_command(language[1], code)
             result == execute_command(command.argv, oc)
         IN IF command.exc # ""
            THEN Out(s, <<>>,
                     <<Msg("Error during code execution: {}", language[1], <<>>,
                           "Unsupported language '{}'.", <<>>)>>, "")
            ELSE [s |-> [s EXCEPT !.last_code = <<code>>, !.last_language = language],
                  notes |-> <<Note("command_output", result)>>,
                  ret |-> <<result>>, exc |-> "", called |-> <<>>,
                  spawned |-> <<command.argv>>, child |-> <<oc>>]

\* cmd_run that tests `args is not None` in place of the truth value of args
cmd_run_args_not_none(s, args, oc) ==
    IF args.t = "list"
    THEN Out(s, <<>>, <<>>, "AttributeError")
    ELSE run_code(s, args.str, <<detect_language(args.str)>>, oc)

\* cmd_run
cmd_run(s, args, oc) ==
    IF truthy(args)
    THEN IF args.t = "list"
         THEN Out(s, <<>>, <<>>, "AttributeError")   \* detect_language: list has no strip
         ELSE run_code(s, args.str, <<detect_language(args.str)>>, oc)
    ELSE IF s.last_code # <<>> /\ s.last_code # <<<<>>>>
    THEN run_code(s, s.last_code[1], s.last_language, oc)
    ELSE Out(s, <<>>, <<Lit("No code to run.")>>, "")

(***************************************************************************)
(* The slash-command handlers.  Each takes the session, its argument and   *)
(* what the environment does during the call.                              *)
(***************************************************************************)
\* cmd_help
cmd_help(s, args) ==
    Out(s, <<Note("message", Lit("Available Commands:{commands}"))>>, <<>>, "")

\* cmd_reset that forgets to clear the last language
cmd_reset_keeps_language(s, args) ==
    Out([s EXCEPT !.chat_history = <<>>, !.history_types = <<>>, !.last_code = <<>>],
        <<Note("message", Lit("Chat history cleared."))>>, <<>>, "")

\* cmd_reset
cmd_reset(s, args) ==
    Out([s EXCEPT !.chat_history = <<>>, !.history_types = <<>>,
                  !.last_code = <<>>, !.last_language = <<>>],
        <<Note("message", Lit("Chat history cleared."))>>, <<>>, "")

\* cmd_model
cmd_model(s, args) ==
    IF truthy(args)
    THEN IF args.t = "list"
         THEN Out(s, <<>>, <<>>, "AttributeError")   \* list has no strip
         ELSE Out([s EXCEPT !.model = strip(args.str)],
                  <<Note("message", Msg("Model set to {}.", strip(args.str), <<>>, "", <<>>))>>,
                  <<>>, "")
    ELSE Out(s, <<Note("message", Lit("Usage: /model <model_name>"))>>, <<>>, "")

\* cmd_persona; the regenerated system prompt is a function of the session
\* and is not kept
cmd_persona(s, args) ==
    IF truthy(args)
    THEN IF args.t = "list"
         THEN Out(s, <<>>, <<>>, "TypeError")   \* a list is unhashable: `args in dict`
         ELSE Out([s EXCEPT !.persona = args.str,
                            !.available_personas =
                                IF dict_has(s.available_personas, args.str)
                                THEN s.available_personas
                                ELSE dict_set(s.available_personas, args.str, args.str)],
                  <<Note("message", Msg("Persona set to {}.", args.str, <<>>, "", <<>>))>>,
                  <<>>, "")
    ELSE Out(s, <<Note("message", Lit("Usage: /persona <persona_name>"))>>, <<>>, "")

\* cmd_quit: exit(0) raises SystemExit
cmd_quit(s, args) ==
    Out(s, <<Note("message", Lit("Exiting..."))>>, <<>>, "SystemExit")

\* what the operator's editing session can do: the file cannot be written or
\* the editor not started, the file cannot be read back, or it holds content
EditWriteFails == [kind |-> "write_fails", content |-> <<>>]
EditReadFails == [kind |-> "read_fails", content |-> <<>>]
EditRemoveFails(content) == [kind |-> "remove_fails", content |-> content]
Edited(content) == [kind |-> "ok", content |-> content]

\* cmd_edit
cmd_edit(s, args, ed) ==
    IF s.last_code = <<>> \/ s.last_code = <<<<>>>>
    THEN Out(s, <<Note("message", Lit("No code to edit."))>>, <<>>, "")
    ELSE IF ed.kind = "write_fails"
    THEN Out(s, <<Note("error", Msg("Error while editing code: {}", <<>>, <<>>, "IOError", <<>>))>>,
             <<>>, "")
    ELSE IF ed.kind = "read_fails"
    THEN Out(s, <<Note("message", Lit("Press Enter in the terminal after editing...")),
                  Note("error", Msg("Error while editing code: {}", <<>>, <<>>, "IOError", <<>>))>>,
             <<>>, "")
    ELSE IF ed.kind = "remove_fails"
    THEN Out([s EXCEPT !.last_code = <<ed.content>>],
             <<Note("message", Lit("Press Enter in the terminal after editing...")),
               Note("error", Msg("Error while editing code: {}", <<>>, <<>>, "IOError", <<>>))>>,
             <<>>, "")
    ELSE Out([s EXCEPT !.last_code = <<ed.content>>],
             <<Note("message", Lit("Press Enter in the terminal after editing...")),
               Note("message", Lit("Code updated. You can now run it with /run."))>>,
             <<>>, "")

\* cmd_show: jha2_ai.py never imports secure_path, so the call is a NameError
cmd_show(s, file_path) ==
    IF ~truthy(file_path)
    THEN Out(s, <<Note("message", Lit("Usage: /show <file_name>"))>>, <<>>, "")
    ELSE Out(s, <<>>, <<>>, "NameError")

\* what an outbound HTTP call can do
WebOk == "ok"
WebFails == "RequestException"

\* cmd_webget: requests turns a list into a text that is no URL and raises a
\* RequestException for it
cmd_webget(s, url, web) ==
    IF ~truthy(url)
    THEN Out(s, <<Note("message", Lit("Usage: /webget <url>"))>>, <<>>, "")
    ELSE IF url.t = "list" \/ web = WebFails
    THEN Out(s, <<Note("error", Msg("Error fetching URL: {}", <<>>, <<>>, WebFails, <<>>))>>,
             <<>>, "")
    ELSE Out(s, <<Note("message", Msg("---- HTML Content of {} ----", url.str, <<>>, "", <<>>))>>,
             <<>>, "")

\* str.split(" ", 2): at most three pieces, cut at single spaces
split_sp2(s) ==
    LET p == split1(s, <<" ">>)
    IN IF Len(p) = 1 THEN p ELSE <<p[1]>> \o split1(p[2], <<" ">>)

LowerCase == <<"a", "b", "c", "d", "e", "f", "g", "h", "i", "j", "k", "l", "m",
               "n", "o", "p", "q", "r", "s", "t", "u", "v", "w", "x", "y", "z">>
UpperCase == <<"A", "B", "C", "D", "E", "F", "G", "H", "I", "J", "K", "L", "M",
               "N", "O", "P", "Q", "R", "S", "T", "U", "V", "W", "X", "Y", "Z">>

\* str.upper()
upper(s) ==
    [i \in 1..Len(s) |->
        IF \E j \in 1..Len(LowerCase) : LowerCase[j] = s[i]
        THEN UpperCase[CHOOSE j \in 1..Len(LowerCase) : LowerCase[j] = s[i]]
        ELSE s[i]]

HttpMethods == {<<"G", "E", "T">>, <<"P", "O", "S", "T">>, <<"P", "U", "T">>,
                <<"D", "E", "L", "E", "T", "E">>, <<"P", "A", "T", "C", "H">>}

Digits == {"0", "1", "2", "3", "4", "5", "6", "7", "8", "9"}

\* json.loads accepts the text: of the JSON grammar, the integers, the three
\* literals and the empty object and array
json_loads_ok(text) ==
    LET t == strip(text)
    IN \/ t # <<>> /\ \A i \in 1..Len(t) : t[i] \in Digits
       \/ t \in {<<"{", "}">>, <<"[", "]">>, <<"t", "r", "u", "e">>,
                 <<"f", "a", "l", "s", "e">>, <<"n", "u", "l", "l">>}

\* cmd_webrequest
cmd_webrequest(s, args, web) ==
    IF ~truthy(args)
    THEN Out(s, <<Note("message", Lit("Usage: /webrequest <method> <url> [data]"))>>, <<>>, "")
    ELSE IF args.t = "list"
    THEN Out(s, <<>>, <<>>, "AttributeError")   \* list has no split
    ELSE LET parts == split_sp2(args.str)
         IN IF Len(parts) < 2
            THEN Out(s, <<Note("message", Lit("Usage: /webrequest <method> <url> [data]"))>>,
                     <<>>, "")
            ELSE IF Len(parts) > 2 /\ ~json_loads_ok(parts[3])
            THEN Out(s, <<>>, <<>>, "JSONDecodeError")
            ELSE IF upper(parts[1]) \notin HttpMethods
            THEN Out(s, <<Note("message",
                               Lit("Error: Invalid HTTP method. Must be GET, POST, PUT, DELETE, or PATCH."))>>,
                     <<>>, "")
            ELSE IF web = WebFails
            THEN Out(s, <<Note("error", Msg("Error during web request: {}", <<>>, <<>>, WebFails, <<>>))>>,
                     <<>>, "")
            ELSE Out(s, <<Note("message", Msg("{response}", parts[2], <<>>, "", <<>>))>>, <<>>, "")

\* validate_url: urlparse finds a scheme and a host
validate_url(url) ==
    LET i == find(url, <<":", "/", "/">>)
    IN i > 1 /\ Len(url) >= i + 3 /\ url[i + 3] # "/"

\* cmd_describe_image, with the captioning key configured or not
cmd_describe_image(s, url, key, web) ==
    IF ~key
    THEN Out(s, <<Note("error",
                       Lit("Hugging Face API key is not configured. Image description unavailable."))>>,
             <<>>, "")
    ELSE IF ~truthy(url)
    THEN Out(s, <<Note("error", Lit("Error: Invalid URL format for image."))>>, <<>>, "")
    ELSE IF url.t = "list"
    THEN Out(s, <<>>, <<>>, "AttributeError")   \* urlparse: list has no decode
    ELSE IF ~validate_url(url.str)
    THEN Out(s, <<Note("error", Lit("Error: Invalid URL format for image."))>>, <<>>, "")
    ELSE IF web = WebFails
    THEN Out(s, <<Note("error", Msg("Error describing image: {}", <<>>, <<>>, WebFails, <<>>))>>,
             <<>>, "")
    ELSE Out(s, <<Note("message", Lit("Image Description: {caption}"))>>, <<>>, "")

\* the items of an argument: the tokens of a list, the characters of a str
items(a) == IF a.t = "list" THEN a.list ELSE [i \in 1..Len(a.str) |-> <<a.str[i]>>]

\* cmd_preferences without the call of save_preferences
cmd_preferences_unsaved(s, args) ==
    IF ~truthy(args)
    THEN Out(s, <<Note("message", Msg("Current Preferences:{}", <<>>, <<>>, "", s.preferences))>>,
             <<>>, "")
    ELSE IF Len(items(args)) = 2
    THEN LET key == items(args)[1]
             value == items(args)[2]
             prefs == dict_set(s.preferences, key, PyStr(value))
         IN Out([s EXCEPT !.preferences = prefs],
                <<Note("message", Msg("Preference '{}' set to '{}'.", key, <<>>, "",
                                      <<<<key, PyStr(value)>>>>))>>,
                <<>>, "")
    ELSE Out(s, <<Note("message", Lit("Usage: /preferences <key> <value>"))>>, <<>>, "")

\* cmd_preferences with save_preferences
cmd_preferences(s, args) ==
    IF ~truthy(args)
    THEN Out(s, <<Note("message", Msg("Current Preferences:{}", <<>>, <<>>, "", s.preferences))>>,
             <<>>, "")
    ELSE IF Len(items(args)) = 2
    THEN LET key == items(args)[1]
             value == items(args)[2]
             prefs == dict_set(s.preferences, key, PyStr(value))
         IN Out([s EXCEPT !.preferences = prefs, !.prefs_file = prefs],
                <<Note("message", Msg("Preference '{}' set to '{}'.", key, <<>>, "",
                                      <<<<key, PyStr(value)>>>>))>>,
                <<>>, "")
    ELSE Out(s, <<Note("message", Lit("Usage: /preferences <key> <value>"))>>, <<>>, "")

\* create_command_registry: the dict of command to handler
commands ==
    <<<<C_help, "cmd_help">>, <<C_reset, "cmd_reset">>, <<C_model, "cmd_model">>,
      <<C_persona, "cmd_persona">>, <<C_quit, "cmd_quit">>, <<C_edit, "cmd_edit">>,
      <<C_run, "cmd_run">>, <<C_show, "cmd_show">>, <<C_webget, "cmd_webget">>,
      <<C_webrequest, "cmd_webrequest">>, <<C_describe_image, "cmd_describe_image">>,
      <<C_preferences, "cmd_preferences">>, <<C_list, "cmd_list">>>>

\* cmd_list
cmd_list(s, args) ==
    IF ~truthy(args)
    THEN Out(s, <<Note("message", Lit("Usage: /list [commands|personas]"))>>, <<>>, "")
    ELSE LET category == items(args)[1]
         IN IF category = S_commands
            THEN Out(s, <<Note("message", Msg("{}", joinsep(dict_keys(commands), "\n"),
                                              <<>>, "", <<>>))>>, <<>>, "")
            ELSE IF category = S_personas
            THEN Out(s, <<Note("message", Msg("{}", joinsep(dict_keys(s.available_personas), "\n"),
                                              <<>>, "", <<>>))>>, <<>>, "")
            ELSE Out(s, <<Note("message", Lit("Invalid category. Use 'commands' or 'personas'."))>>,
                     <<>>, "")

(***************************************************************************)
(* The Dispatcher.                                                         *)
(***************************************************************************)
\* what the environment does during one call: how a child process ends, what
\* the operator's editing session does, what an outbound HTTP call does
Env(oc, ed, web) == [child |-> oc, edit |-> ed, web |-> web]

\* the call command_method[0](args) for the handler registered under a name
handler(name, s, args, env, key) ==
    CASE name = "cmd_help" -> cmd_help(s, args)
      [] name = "cmd_reset" -> cmd_reset(s, args)
      [] name = "cmd_model" -> cmd_model(s, args)
      [] name = "cmd_persona" -> cmd_persona(s, args)
      [] name = "cmd_quit" -> cmd_quit(s, args)
      [] name = "cmd_edit" -> cmd_edit(s, args, env.edit)
      [] name = "cmd_run" -> cmd_run(s, args, env.child)
      [] name = "cmd_show" -> cmd_show(s, args)
      [] name = "cmd_webget" -> cmd_webget(s, args, env.web)
      [] name = "cmd_webrequest" -> cmd_webrequest(s, args, env.web)
      [] name = "cmd_describe_image" -> cmd_describe_image(s, args, key, env.web)
      [] name = "cmd_preferences" -> cmd_preferences(s, args)
      [] name = "cmd_list" -> cmd_list(s, args)

\* a handler call, recorded
invoke(name, s, args, env, key) ==
    [handler(name, s, args, env, key) EXCEPT !.called = <<[handler |-> name, arg |-> args]>>]

\* extract_code_from_input
extract_code_from_input(user_input) ==
    LET sections == split1(user_input, S_run)
    IN IF Len(sections) > 1 THEN strip(sections[2]) ELSE <<>>

\* interpret_natural_language that looks for a slash-command before the "run" trigger
interpret_natural_language_slash_first(s, user_input, env, key) ==
    IF startswith(user_input, <<"/">>) /\ dict_has(commands, split(user_input)[1])
    THEN invoke(dict_get(commands, split(user_input)[1]), s,
                ArgList(Tail(split(user_input))), env, key)
    ELSE IF contains(user_input, S_run)
    THEN invoke("cmd_run", s, ArgStr(extract_code_from_input(user_input)), env, key)
    ELSE Out(s, <<>>, <<Lit("Command not recognized.")>>, "")

\* interpret_natural_language
interpret_natural_language(s, user_input, env, key) ==
    IF contains(user_input, S_run)
    THEN invoke("cmd_run", s, ArgStr(extract_code_from_input(user_input)), env, key)
    ELSE IF startswith(user_input, <<"/">>) /\ dict_has(commands, split(user_input)[1])
    THEN invoke(dict_get(commands, split(user_input)[1]), s,
                ArgList(Tail(split(user_input))), env, key)
    ELSE Out(s, <<>>, <<Lit("Command not recognized.")>>, "")

\* truth value of a returned text
nonempty(m) == ~(m.lit = "{}" /\ m.arg = <<>>)

\* process_input that accepts a response of None in silence
process_input_silent(s, user_input, env, key) ==
    IF strip(user_input) = <<>>
    THEN Out(s, <<Note("error", Msg("Error processing input: {}", <<>>, <<>>, "Empty input", <<>>))>>,
             <<>>, "")
    ELSE LET r == interpret_natural_language(s, user_input, env, key)
         IN IF r.exc = "SystemExit" THEN r
            ELSE IF r.exc # ""
            THEN [r EXCEPT !.notes = Append(r.notes,
                     Note("error", Msg("Error processing input: {}", <<>>, <<>>, r.exc, <<>>)))]
            ELSE IF r.ret # <<>> /\ nonempty(r.ret[1])
            THEN [r EXCEPT !.notes = Append(r.notes, Note("message", r.ret[1]))]
            ELSE r

\* process_input: SystemExit is no Exception and ends the process
process_input(s, user_input, env, key) ==
    IF strip(user_input) = <<>>
    THEN Out(s, <<Note("error", Msg("Error processing input: {}", <<>>, <<>>, "Empty input", <<>>))>>,
             <<>>, "")
    ELSE LET r == interpret_natural_language(s, user_input, env, key)
         IN IF r.exc = "SystemExit" THEN r
            ELSE IF r.exc # ""
            THEN [r EXCEPT !.notes = Append(r.notes,
                      Note("error", Msg("Error processing input: {}", <<>>, <<>>, r.exc, <<>>)))]
            ELSE IF r.ret # <<>> /\ nonempty(r.ret[1])
            THEN [r EXCEPT !.notes = Append(r.notes, Note("message", r.ret[1]))]
            ELSE [r EXCEPT !.notes = Append(r.notes,
                      Note("error", Msg("Error processing input: {}", <<>>, <<>>,
                                        "Failed to retrieve a valid response", <<>>)))]

(***************************************************************************)
(* The inputs the model draws from.                                        *)
(***************************************************************************)
\* largest return code of a child process
MaxExitCode == 1

Sp == <<" ">>
A_gpt == <<"g", "p", "t">>
A_bob == <<"b", "o", "b">>
A_runner == <<"r", "u", "n", "n", "e", "r">>
A_k == <<"k">>
A_v == <<"v">>
A_w == <<"w">>
A_x == <<"x">>
A_hello == <<"h", "e", "l", "l", "o">>
A_please == <<"p", "l", "e", "a", "s", "e">>
A_file == <<"f", ".", "t", "x", "t">>
A_url == <<"h", "t", "t", "p", ":", "/", "/", "x">>
A_POST == <<"P", "O", "S", "T">>
A_bad == <<"{", "b", "a", "d">>
A_unknown == <<"/", "u", "n", "k", "n", "o", "w", "n">>
A_RUN == <<"/", "R", "U", "N">>
Code_print == <<"p", "r", "i", "n", "t", "(", "1", ")">>
Code_print2 == <<"p", "r", "i", "n", "t", "(", "2", ")">>
Code_js == <<"c", "o", "n", "s", "o", "l", "e", ".", "l", "o", "g", "(", "1", ")">>
Code_sql == <<"S", "E", "L", "E", "C", "T", " ", "1">>
Code_js_def == <<"c", "o", "n", "s", "o", "l", "e", ".", "l", "o", "g", "(", "'", "u", "n", "d", "e", "f", "i", "n", "e", "d", "'", ")">>
Out_ok == <<"o", "k">>

\* input lines with no "run" in them
PlainInputs ==
    {C_help, C_reset, C_model, C_model \o Sp \o A_gpt, C_model \o Sp \o A_gpt \o Sp,
     C_persona, C_persona \o Sp \o A_bob, C_quit, C_edit,
     C_show, C_show \o Sp \o A_file, C_webget, C_webget \o Sp \o A_url,
     C_webrequest, C_webrequest \o Sp \o A_POST \o Sp \o A_url \o Sp \o A_bad,
     C_describe_image, C_describe_image \o Sp \o A_url,
     C_preferences, C_preferences \o Sp \o A_k \o Sp \o A_v,
     C_preferences \o Sp \o A_k \o Sp \o A_w, C_preferences \o Sp \o A_k,
     C_list, C_list \o Sp \o S_commands, C_list \o Sp \o S_personas, C_list \o Sp \o A_x,
     A_hello, A_unknown \o Sp \o A_x, A_RUN \o Sp \o A_x,
     Sp \o C_reset, Sp \o C_model \o Sp \o A_gpt,
     <<>>, Sp}

\* input lines with "run" in them
RunInputs ==
    {C_run, S_run, C_run \o Sp \o Sp,
     C_run \o Sp \o Code_print, C_run \o Sp \o Code_js, C_run \o Sp \o Code_sql,
     C_run \o Sp \o Code_js_def, A_please \o Sp \o S_run \o Sp \o Code_print,
     C_persona \o Sp \o A_runner, C_preferences \o Sp \o A_k \o Sp \o S_run}

Inputs == PlainInputs \cup RunInputs

\* the ways a child process ends
ChildOutcomes ==
    {Exited(c, o[1], o[2]) : c \in 0..MaxExitCode,
                             o \in {<<<<>>, <<>>>>, <<Out_ok, <<>>>>, <<<<>>, <<"\n">>>>}}
    \cup {TimedOut, SpawnFailed}

\* what the operator can leave in the edited file
EditOutcomes ==
    {EditWriteFails, EditReadFails, EditRemoveFails(Code_print2)}
    \cup {Edited(c) : c \in {<<>>, Code_print2, Code_sql}}

\* the environments to consider for an input line: children for a line that
\* can reach /run, editing sessions for one that can reach /edit
EnvFor(user_input) ==
    IF contains(user_input, S_run)
    THEN {Env(oc, EditWriteFails, WebFails) : oc \in ChildOutcomes}
    ELSE IF contains(user_input, <<"e", "d", "i", "t">>)
    THEN {Env(TimedOut, ed, WebFails) : ed \in EditOutcomes}
    ELSE {Env(TimedOut, EditWriteFails, WebFails)}

(***************************************************************************)
(* The download endpoint of app.py.                                        *)
(***************************************************************************)
\* str.lower()
lower(s) ==
    [i \in 1..Len(s) |->
        IF \E j \in 1..Len(UpperCase) : UpperCase[j] = s[i]
        THEN LowerCase[CHOOSE j \in 1..Len(UpperCase) : UpperCase[j] = s[i]]
        ELSE s[i]]

\* str.rsplit(c, 1): cut at the last c, one piece when there is none
rsplit1(s, c) ==
    IF \E i \in 1..Len(s) : s[i] = c
    THEN LET k == CHOOSE i \in 1..Len(s) :
                     s[i] = c /\ \A j \in (i + 1)..Len(s) : s[j] # c
         IN <<SubSeq(s, 1, k - 1), SubSeq(s, k + 1, Len(s))>>
    ELSE <<s>>

ALLOWED_EXTENSIONS ==
    {<<"t", "x", "t">>, <<"p", "y">>, <<"j", "s">>, <<"j", "s", "o", "n">>,
     <<"h", "t", "m", "l">>, <<"c", "s", "s">>}

\* validate_file_type
validate_file_type(filename) ==
    /\ \E i \in 1..Len(filename) : filename[i] = "."
    /\ lower(rsplit1(filename, ".")[2]) \in ALLOWED_EXTENSIONS

\* one step of download_file and whether it let the request go on
Step(name, ok) == [step |-> name, ok |-> ok]

\* what download_file did: its steps in order, the aborts raised in order,
\* the file handed to send_from_directory and sent, the notifications
Download(trace, aborts, served, n) ==
    [trace |-> trace, aborts |-> aborts, served |-> served, notes |-> n]

NoDownload == Download(<<>>, <<>>, <<>>, <<>>)

\* download_file that calls the path guard before the extension check
download_file_guard_first(filename, wd, exists, sent) ==
    LET safe_path == secure_path(filename, wd)
    IN IF safe_path.path = <<>>
       THEN Download(<<Step("secure_path", FALSE)>>, <<404, 500>>, <<>>, safe_path.notes)
       ELSE IF ~validate_file_type(filename)
       THEN Download(<<Step("secure_path", TRUE), Step("validate_file_type", FALSE)>>,
                     <<400, 500>>, <<>>, <<>>)
       ELSE IF ~exists
       THEN Download(<<Step("secure_path", TRUE), Step("validate_file_type", TRUE),
                       Step("os.path.exists", FALSE)>>, <<404, 500>>, <<>>, <<>>)
       ELSE IF ~sent
       THEN Download(<<Step("secure_path", TRUE), Step("validate_file_type", TRUE),
                       Step("os.path.exists", TRUE), Step("send_from_directory", FALSE)>>,
                     <<500>>, <<>>, <<>>)
       ELSE Download(<<Step("secure_path", TRUE), Step("validate_file_type", TRUE),
                       Step("os.path.exists", TRUE), Step("send_from_directory", TRUE)>>,
                     <<>>, <<filename>>, <<>>)

\* download_file, for a resolved path that exists or not and a
\* send_from_directory that sends the file or raises.  abort(400) and
\* abort(404) raise inside the try block: `except Exception` catches them and
\* aborts with 500.
download_file(filename, wd, exists, sent) ==
    IF ~validate_file_type(filename)
    THEN Download(<<Step("validate_file_type", FALSE)>>, <<400, 500>>, <<>>, <<>>)
    ELSE LET safe_path == secure_path(filename, wd)
         IN IF safe_path.path = <<>>
            THEN Download(<<Step("validate_file_type", TRUE), Step("secure_path", FALSE)>>,
                          <<404, 500>>, <<>>, safe_path.notes)
            ELSE IF ~exists
            THEN Download(<<Step("validate_file_type", TRUE), Step("secure_path", TRUE),
                            Step("os.path.exists", FALSE)>>, <<404, 500>>, <<>>, <<>>)
            ELSE IF ~sent
            THEN Download(<<Step("validate_file_type", TRUE), Step("secure_path", TRUE),
                            Step("os.path.exists", TRUE), Step("send_from_directory", FALSE)>>,
                          <<500>>, <<>>, <<>>)
            ELSE Download(<<Step("validate_file_type", TRUE), Step("secure_path", TRUE),
                            Step("os.path.exists", TRUE), Step("send_from_directory", TRUE)>>,
                          <<>>, <<filename>>, <<>>)

(***************************************************************************)
(* The state after construction, with the default configuration.           *)
(***************************************************************************)
DefaultWorkingDirectory ==
    <<".", "/", "j", "h", "a", "2", "_", "w", "o", "r", "k", "s", "p", "a", "c", "e">>

DefaultPreferences ==
    <<<<K_preferred_language, PyStr(S_python)>>, <<K_confirm_destructive, PyTrue>>>>

InitSession ==
    /\ model = DefaultModel
    /\ persona = DefaultPersona
    /\ available_personas = <<<<DefaultPersona, DefaultPrompt>>>>
    /\ chat_history = <<>>
    /\ history_types = <<>>
    /\ last_code = <<>>
    /\ last_language = <<>>
    /\ preferences = DefaultPreferences
    /\ prefs_file = DefaultPreferences
    /\ alive = TRUE
    /\ last_input = <<>>
    /\ pre = Session
    /\ called = <<>>
    /\ raised = ""
    /\ response = <<>>
    /\ notes = <<>>
    /\ spawned = <<>>
    /\ child = <<>>
    /\ running = {}
    /\ sp_filename = <<>>
    /\ sp_result = [path |-> <<>>, notes |-> <<>>]
    /\ dc_code = <<>>
    /\ dc_result = <<>>
    /\ dl_filename = <<>>
    /\ dl_result = NoDownload

Init ==
    /\ InitSession
    /\ hf_key \in BOOLEAN
    /\ working_directory = DefaultWorkingDirectory

\* one call of process_input, as the loop of __main__ and handle_user_input make it
ProcessInput ==
    /\ alive
    /\ \E user_input \in Inputs : \E env \in EnvFor(user_input) :
         \E r \in {process_input(Session, user_input, env, hf_key)} :
            /\ model' = r.s.model
            /\ persona' = r.s.persona
            /\ available_personas' = r.s.available_personas
            /\ chat_history' = r.s.chat_history
            /\ history_types' = r.s.history_types
            /\ last_code' = r.s.last_code
            /\ last_language' = r.s.last_language
            /\ preferences' = r.s.preferences
            /\ prefs_file' = r.s.prefs_file
            /\ alive' = (r.exc # "SystemExit")
            /\ last_input' = <<user_input>>
            /\ pre' = Session
            /\ called' = r.called
            /\ raised' = r.exc
            /\ response' = r.ret
            /\ notes' = r.notes
            /\ spawned' = r.spawned
            /\ child' = r.child
            /\ running' = {i \in 1..Len(r.child) : child_running_after(r.child[i])}
    /\ UNCHANGED <<hf_key, path_vars, detect_vars, download_vars>>

Next == ProcessInput

Spec == Init /\ [][Next]_vars

(***************************************************************************)
(* The Path Guard on its own: every root, every requested filename.        *)
(***************************************************************************)
Seg_dotdot == <<".", ".">>
Seg_ws == <<"w", "s">>
Seg_ws_evil == <<"w", "s", "_", "e", "v", "i", "l">>

\* the components a requested filename is made of
Segs == {Seg_dotdot, Seg_ws, Seg_ws_evil, A_x, <<>>}

\* the requested filenames: up to MaxSegs components, relative or absolute
Filenames ==
    {lead \o joinsep(segs, "/") :
        lead \in {<<>>, <<"/">>},
        segs \in UNION {[1..k -> Segs] : k \in 0..MaxSegs}}

\* the working directories: absolute, with a trailing slash, relative, the root
WorkingDirs ==
    {<<"/", "a", "/", "w", "s">>, <<"/", "a", "/", "w", "s", "/">>, Seg_ws, <<"/">>}

InitPath ==
    /\ InitSession
    /\ hf_key = TRUE
    /\ working_directory \in WorkingDirs

\* the call of secure_path, for any requested filename
SecurePathCall ==
    /\ sp_filename = <<>>
    /\ \E filename \in Filenames :
         /\ sp_filename' = <<filename>>
         /\ sp_result' = secure_path(filename, working_directory)
    /\ UNCHANGED <<session_vars, call_vars, working_directory, detect_vars, download_vars>>

NextPath == SecurePathCall

SpecPath == InitPath /\ [][NextPath]_vars

(***************************************************************************)
(* detect_language on its own, for any code.                               *)
(***************************************************************************)
MaxTokens == 3

\* the pieces a code is made of
Tokens == {S_print, S_console_log, S_def, <<" ">>, <<"\n">>, A_x}

RECURSIVE concat(_)
concat(ss) == IF ss = <<>> THEN <<>> ELSE Head(ss) \o concat(Tail(ss))

\* the codes: up to MaxTokens pieces, and console.log('undefined')
Codes ==
    {concat(ts) : ts \in UNION {[1..k -> Tokens] : k \in 0..MaxTokens}} \cup {Code_js_def}

InitDetect ==
    /\ InitSession
    /\ hf_key = TRUE
    /\ working_directory = DefaultWorkingDirectory

\* the call of detect_language, for any code
DetectLanguage ==
    /\ dc_code = <<>>
    /\ \E code \in Codes :
         /\ dc_code' = <<code>>
         /\ dc_result' = <<detect_language(code)>>
    /\ UNCHANGED <<session_vars, call_vars, path_vars, download_vars>>

NextDetect == DetectLanguage

SpecDetect == InitDetect /\ [][NextDetect]_vars

(***************************************************************************)
(* The download endpoint on its own, for any requested filename.           *)
(***************************************************************************)
\* the names a request can carry: the route's <filename> holds no slash
DownloadStems == {A_x, <<"X", ".", "t", "a", "r">>, <<".", ".">>, <<>>}
DownloadSuffixes ==
    {<<>>, <<".">>, <<".", "t", "x", "t">>, <<".", "T", "x", "T">>, <<".", "p", "y">>,
     <<".", "j", "s">>, <<".", "j", "s", "o", "n">>, <<".", "h", "t", "m", "l">>,
     <<".", "c", "s", "s">>, <<".", "e", "x", "e">>, <<".", "t", "x", "t", " ">>,
     <<".", "t", "x", "t", ".", "e", "x", "e">>, <<".", "e", "x", "e", ".", "p", "y">>}
DownloadNames == {stem \o suffix : stem \in DownloadStems, suffix \in DownloadSuffixes}

InitDownload ==
    /\ InitSession
    /\ hf_key = TRUE
    /\ working_directory \in WorkingDirs

\* one request of /download/<filename>
DownloadFile ==
    /\ dl_filename = <<>>
    /\ \E filename \in DownloadNames \ {<<>>} : \E exists \in BOOLEAN : \E sent \in BOOLEAN :
         /\ dl_filename' = <<filename>>
         /\ dl_result' = download_file(filename, working_directory, exists, sent)
    /\ UNCHANGED <<session_vars, call_vars, path_vars, detect_vars>>

NextDownload == DownloadFile

SpecDownload == InitDownload /\ [][NextDownload]_vars

(***************************************************************************)
(* Properties.                                                             *)
(***************************************************************************)
\* the line of the latest process_input call
Line == last_input[1]

\* the latest call invoked exactly this handler, once
Invoked(name) == Len(called) = 1 /\ called[1].handler = name

\* the non-empty components of a path
Comps(p) == SelectSeq(splitsep(p, "/"), LAMBDA c : c # <<>>)

\* path lies in the subtree of root: root itself or something below it
InsideTree(path, root) ==
    /\ Len(Comps(root)) <= Len(Comps(path))
    /\ SubSeq(Comps(path), 1, Len(Comps(root))) = Comps(root)

\* C1: whenever the normalized absolute form of root/f lies outside the
\* subtree of the working directory, secure_path returns None, and a path it
\* returns is never outside that subtree.
C1_EscapeRejected ==
    sp_filename # <<>> =>
        LET base_dir == abspath(working_directory)
            target == abspath(join(base_dir, sp_filename[1]))
        IN /\ ~InsideTree(target, base_dir) => sp_result.path = <<>>
           /\ sp_result.path # <<>> => InsideTree(sp_result.path[1], base_dir)

\* C2: no exception raised inside a handler leaves the handler (the exit of
\* /quit aside): whatever the Dispatcher passes, the handler returns.
C2_HandlersContainErrors ==
    called # <<>> => raised \in {"", "SystemExit"}

\* C3: /run on non-empty code whose language is not detected answers exactly
\* "Language not detected. Please specify.", starts no child process and
\* leaves last_code and last_language as they were.
C3_UnknownLanguageReported ==
    (Invoked("cmd_run") /\ called[1].arg.str # <<>>
        /\ detect_language(called[1].arg.str) = S_unknown)
    => /\ response = <<Lit("Language not detected. Please specify.")>>
       /\ spawned = <<>>
       /\ last_code = pre.last_code
       /\ last_language = pre.last_language

\* the text after the command token of a line that starts with that token
\* and a space
Remainder(line, token) == SubSeq(line, Len(token) + 2, Len(line))

\* the line is the command token, a space and a non-blank argument, with no
\* "run" in it
CommandLine(line, token) ==
    /\ startswith(line, token \o Sp)
    /\ strip(Remainder(line, token)) # <<>>
    /\ ~contains(line, S_run)

\* C4: after '/model <name>', with a non-empty name and no "run" in the line,
\* the model is the trimmed name and persona, personas, history, last code and
\* language and preferences are unchanged.
C4_ModelSet ==
    (last_input # <<>> /\ CommandLine(Line, C_model))
    => /\ model = strip(Remainder(Line, C_model))
       /\ persona = pre.persona
       /\ available_personas = pre.available_personas
       /\ chat_history = pre.chat_history
       /\ last_code = pre.last_code
       /\ last_language = pre.last_language
       /\ preferences = pre.preferences

\* C5: a line whose trimmed text starts with '/' and has no "run" in it is
\* split into the command token and the remainder; a registered token has its
\* handler invoked exactly once with the remainder, any other token, and any
\* line that does not start with '/', is answered "Command not recognized."
\* with the session unchanged.
C5_SlashRouting ==
    (last_input # <<>> /\ strip(Line) # <<>> /\ ~contains(Line, S_run))
    => IF startswith(strip(Line), <<"/">>) /\ dict_has(commands, split(Line)[1])
       THEN called = <<[handler |-> dict_get(commands, split(Line)[1]),
                        arg |-> ArgList(Tail(split(Line)))]>>
       ELSE /\ called = <<>>
            /\ response = <<Lit("Command not recognized.")>>
            /\ Session = pre

\* C6: a non-empty line with "run" anywhere in it never reaches another
\* slash-command's handler: cmd_run alone is invoked, once, on the trimmed
\* text after the first "run", and that code is executed when its language is
\* detected.
C6_RunTriggerPrecedence ==
    (last_input # <<>> /\ strip(Line) # <<>> /\ contains(Line, S_run))
    => \E i \in 1..(Len(Line) - 2) :
          /\ SubSeq(Line, i, i + 2) = S_run
          /\ \A j \in 1..(i - 1) : SubSeq(Line, j, j + 2) # S_run
          /\ LET code == strip(SubSeq(Line, i + 3, Len(Line)))
             IN /\ called = <<[handler |-> "cmd_run", arg |-> ArgStr(code)]>>
                /\ (code # <<>> /\ detect_language(code) # S_unknown)
                   => spawned = <<get_command(detect_language(code), code).argv>>

\* C6 happens: '/persona runner' ran the code "ner" through cmd_run
C6_Witness ==
    /\ last_input = <<C_persona \o Sp \o A_runner>>
    /\ Invoked("cmd_run")
    /\ called[1].arg = ArgStr(<<"n", "e", "r">>)
    /\ persona = pre.persona

\* C7: after '/persona N' for an unknown N with no "run" in it, N is a persona
\* whose prompt is N and is the active persona; for an N already known the
\* personas are left as they were and N is active.
C7_PersonaInserted ==
    (last_input # <<>> /\ CommandLine(Line, C_persona))
    => LET N == strip(Remainder(Line, C_persona))
       IN /\ persona = N
          /\ dict_has(available_personas, N)
          /\ IF dict_has(pre.available_personas, N)
             THEN available_personas = pre.available_personas
             ELSE available_personas = Append(pre.available_personas, <<N, N>>)

\* C8: '/reset' leaves model, persona, personas and preferences as they were
\* and leaves the history empty and last code and language absent.
C8_ResetFrame ==
    last_input = <<C_reset>>
    => /\ model = pre.model
       /\ persona = pre.persona
       /\ available_personas = pre.available_personas
       /\ preferences = pre.preferences
       /\ chat_history = <<>>
       /\ history_types = <<>>
       /\ last_code = <<>>
       /\ last_language = <<>>

\* C8 happens: a reset of a session that had run code and changed a preference
C8_Witness ==
    /\ last_input = <<C_reset>>
    /\ pre.last_code # <<>>
    /\ pre.last_language # <<>>
    /\ pre.preferences # DefaultPreferences
    /\ last_code = <<>>

\* C9: once /run has started a child process for a code and a language, the
\* session records exactly that code and language (the code given, or the
\* last code when none was given), however the child ended, and the result
\* has been notified as command_output.
C9_RunRecordsWhatItRan ==
    spawned # <<>>
    => /\ Invoked("cmd_run")
       /\ Len(spawned) = 1
       /\ last_code # <<>>
       /\ last_language # <<>>
       /\ spawned[1] = get_command(last_language[1], last_code[1]).argv
       /\ IF called[1].arg.str # <<>>
          THEN /\ last_code = <<called[1].arg.str>>
               /\ last_language = <<detect_language(called[1].arg.str)>>
          ELSE /\ last_code = pre.last_code
               /\ last_language = pre.last_language
       /\ response # <<>>
       /\ \E i \in 1..Len(notes) : notes[i] = Note("command_output", response[1])

\* C9 happens: the last code was run again and the child timed out
C9_Witness ==
    /\ spawned # <<>>
    /\ called[1].arg.str = <<>>
    /\ child[1].kind = "timeout"
    /\ last_code = pre.last_code
    /\ response = <<Lit("Error: Code execution timed out (25 seconds).")>>

\* C10: /run with no code while last_code is absent answers exactly
\* "No code to run.", starts no child, notifies no command_output and leaves
\* last code and language absent.
C10_NothingToRun ==
    (Invoked("cmd_run") /\ called[1].arg.str = <<>> /\ pre.last_code = <<>>)
    => /\ response = <<Lit("No code to run.")>>
       /\ spawned = <<>>
       /\ \A i \in 1..Len(notes) : notes[i].kind # "command_output"
       /\ last_code = <<>>
       /\ last_language = <<>>

\* C10 happens: '/run' in a session whose preferences were changed before
\* and that holds no code
C10_Witness ==
    /\ last_input = <<C_run>>
    /\ Invoked("cmd_run")
    /\ pre.last_code = <<>>
    /\ pre.preferences # DefaultPreferences
    /\ response = <<Lit("No code to run.")>>

(***************************************************************************)
(* The executor.                                                           *)
(***************************************************************************)
\* C11: whenever a call started a child, execute_command returned a text and
\* raised nothing; a child that exits with code 0 and whose stdout followed by
\* stderr is empty after trimming gives exactly "No output generated."; a
\* child that exits with a code N other than 0 gives a message that carries N.
C11_ExecutorOutcomeText ==
    spawned # <<>>
    => /\ Len(child) = Len(spawned)
       /\ raised = ""
       /\ response # <<>>
       /\ nonempty(response[1])
       /\ \A i \in 1..Len(child) :
            /\ (child[i].kind = "exit" /\ child[i].code = 0
                  /\ strip(child[i].stdout \o child[i].stderr) = <<>>)
               => response[1] = Lit("No output generated.")
            /\ (child[i].kind = "exit" /\ child[i].code = 0
                  /\ strip(child[i].stdout \o child[i].stderr) # <<>>)
               => response[1].arg = strip(child[i].stdout \o child[i].stderr)
            /\ (child[i].kind = "exit" /\ child[i].code # 0)
               => /\ response[1].num = <<child[i].code>>
                  /\ response[1].err = "Command failed with return code {}"

\* C11 happens: a child exits with code 0 having written only a line break
C11_Witness ==
    /\ spawned # <<>>
    /\ child[1].kind = "exit"
    /\ child[1].code = 0
    /\ child[1].stdout \o child[1].stderr # <<>>
    /\ response = <<Lit("No output generated.")>>

\* C12: whenever a child was still running when the timeout of 25 seconds
\* expired, execute_command returned exactly the timeout message, that child
\* no longer runs once the call has returned, and the command was started
\* once only.
C12_TimeoutKillsChild ==
    \A i \in 1..Len(child) :
        child[i].kind = "timeout"
        => /\ response = <<Lit("Error: Code execution timed out (25 seconds).")>>
           /\ raised = ""
           /\ i \notin running
           /\ Len(spawned) = 1

\* C12 happens: code given on the line is started and outlives the timeout
C12_Witness ==
    /\ Len(spawned) = 1
    /\ child[1].kind = "timeout"
    /\ called[1].arg.str # <<>>
    /\ running = {}
    /\ \E i \in 1..Len(notes) :
         notes[i] = Note("command_output", Lit("Error: Code execution timed out (25 seconds)."))

(***************************************************************************)
(* /webrequest and /preferences.                                           *)
(***************************************************************************)
\* the line is '/webrequest <method> <url> <data>' with a data segment that
\* json.loads rejects
MalformedWebRequest(line) ==
    /\ CommandLine(line, C_webrequest)
    /\ Len(split_sp2(Remainder(line, C_webrequest))) = 3
    /\ ~json_loads_ok(split_sp2(Remainder(line, C_webrequest))[3])

\* C13: for every /webrequest line with a method, a url and a data segment
\* that is not valid JSON, the failure of json.loads is reported by an 'error'
\* notification, no HTTP request is made and the call notifies something.
C13_MalformedJsonReported ==
    (last_input # <<>> /\ MalformedWebRequest(Line))
    => /\ \E i \in 1..Len(notes) :
            notes[i].kind = "error" /\ notes[i].msg.err = "JSONDecodeError"
       /\ \A i \in 1..Len(notes) :
            notes[i].msg.lit \notin {"Error during web request: {}", "{response}"}
       /\ notes # <<>>

\* the mapping d with d[k] = v and every other key as in d0
SetIn(d, d0, k, v) ==
    /\ dict_has(d, k)
    /\ dict_get(d, k) = v
    /\ \A j \in 1..Len(d) : d[j][1] = k \/ (dict_has(d0, d[j][1]) /\ dict_get(d0, d[j][1]) = d[j][2])
    /\ \A j \in 1..Len(d0) : dict_has(d, d0[j][1])
    /\ \A i, j \in 1..Len(d) : d[i][1] = d[j][1] => i = j

C17_LastRunPair ==
    /\ (last_code = <<>>) <=> (last_language = <<>>)
    /\ last_language \in {<<>>, <<S_python>>, <<S_javascript>>}
    /\ \A i \in 1..Len(spawned) : spawned[i][1] \in {S_python, S_node}

\* C17 happens: /edit reads back an emptied file while the language of the
\* last run stays javascript
C17_Witness ==
    /\ Invoked("cmd_edit")
    /\ pre.last_code = <<Code_js>>
    /\ last_code = <<<<>>>>
    /\ last_language = <<S_javascript>>

\* the last notification of the latest call is as C18 says: a 'message' with
\* the response when the response is a non-empty text, else an 'error'; and
\* a handler that returned None without raising is followed by the error
\* "Failed to retrieve a valid response", the session staying as it left it
FinalNotification ==
    /\ notes # <<>>
    /\ IF response # <<>> /\ nonempty(response[1])
       THEN notes[Len(notes)] = Note("message", response[1])
       ELSE notes[Len(notes)].kind = "error"
    /\ (called # <<>> /\ response = <<>> /\ raised = "")
       => notes[Len(notes)] =
             Note("error", Msg("Error processing input: {}", <<>>, <<>>,
                               "Failed to retrieve a valid response", <<>>))
    /\ (Invoked("cmd_reset") /\ raised = "")
       => /\ chat_history = <<>>
          /\ last_code = <<>>
          /\ Len(notes) = 2
          /\ notes[1] = Note("message", Lit("Chat history cleared."))

\* C18 as stated: for every non-empty input the last notification of
\* process_input is a 'message' with the router's response when that is a
\* non-empty text, and else an 'error'.
C18_FinalNotificationAlways ==
    (last_input # <<>> /\ Line # <<>>) => FinalNotification

\* C18, for the calls process_input returns from: for every non-empty input
\* that does not end the process in /quit, the last notification is a
\* 'message' with the router's response when that is a non-empty text, and
\* else an 'error'; a handler that returned None is followed by the error
\* "Failed to retrieve a valid response" and keeps its changes of the session.
C18_FinalNotification ==
    (last_input # <<>> /\ Line # <<>> /\ raised # "SystemExit") => FinalNotification

\* C18 happens: /reset clears a session that held code, notifies
\* "Chat history cleared." and is followed by the error
C18_Witness ==
    /\ Invoked("cmd_reset")
    /\ pre.last_code # <<>>
    /\ last_code = <<>>
    /\ Len(notes) = 2
    /\ notes[1] = Note("message", Lit("Chat history cleared."))
    /\ notes[2] = Note("error", Msg("Error processing input: {}", <<>>, <<>>,
                                    "Failed to retrieve a valid response", <<>>))

(***************************************************************************)
(* The language detector and the download endpoint.                        *)
(***************************************************************************)
\* the text w stands in s at position i
At(s, w, i) == i >= 1 /\ i + Len(w) - 1 <= Len(s) /\ SubSeq(s, i, i + Len(w) - 1) = w

\* the text w stands in s right after its leading whitespace
AfterBlanks(s, w) ==
    \E i \in 1..Len(s) : At(s, w, i) /\ \A j \in 1..(i - 1) : IsSpace(s[j])

\* C16: detect_language answers for every code, with python when the code
\* begins, after leading whitespace, with "print" or holds "def" anywhere,
\* else with javascript when it begins with "console.log", else with
\* "unknown"; python wins over javascript, and the answer is always one of
\* the three.
C16_RuleOrder ==
    dc_code # <<>>
    => LET code == dc_code[1]
           py == AfterBlanks(code, S_print) \/ \E i \in 1..Len(code) : At(code, S_def, i)
           js == AfterBlanks(code, S_console_log)
       IN /\ Len(dc_result) = 1
          /\ dc_result[1] \in {S_python, S_javascript, S_unknown}
          /\ py => dc_result[1] = S_python
          /\ (~py /\ js) => dc_result[1] = S_javascript
          /\ (~py /\ ~js) => dc_result[1] = S_unknown
          /\ Session = pre

\* C16 happens: console.log('undefined') begins with "console.log", holds
\* "def" and is classified python
C16_Witness ==
    /\ dc_code = <<Code_js_def>>
    /\ AfterBlanks(Code_js_def, S_console_log)
    /\ dc_result = <<S_python>>

\* the filename has an extension, the text after its last dot, and that is
\* one of the six allowed ones whatever its case
AllowedExtension(filename) ==
    \E i \in 1..Len(filename) :
        /\ filename[i] = "."
        /\ \A j \in (i + 1)..Len(filename) : filename[j] # "."
        /\ lower(SubSeq(filename, i + 1, Len(filename))) \in
              {<<"t", "x", "t">>, <<"p", "y">>, <<"j", "s">>, <<"j", "s", "o", "n">>,
               <<"h", "t", "m", "l">>, <<"c", "s", "s">>}

\* C15: for every requested filename the extension check is the first step
\* and comes before any call of the path guard; a filename with a disallowed
\* or missing extension is rejected with the path guard not called and no
\* file served; a file is served only after the path guard accepted the name
\* and the resolved path was found to exist.
C15_DownloadOrdering ==
    dl_filename # <<>>
    => LET tr == dl_result.trace
       IN /\ tr # <<>>
          /\ tr[1].step = "validate_file_type"
          /\ \A j \in 1..Len(tr) :
               tr[j].step = "secure_path"
               => \E i \in 1..(j - 1) : tr[i] = Step("validate_file_type", TRUE)
          /\ ~AllowedExtension(dl_filename[1])
             => /\ \A j \in 1..Len(tr) : tr[j].step # "secure_path"
                /\ dl_result.served = <<>>
                /\ dl_result.aborts # <<>>
          /\ dl_result.served # <<>>
             => /\ dl_result.served = dl_filename
                /\ \E i \in 1..Len(tr) : tr[i] = Step("secure_path", TRUE)
                /\ \E i \in 1..Len(tr) : tr[i] = Step("os.path.exists", TRUE)
                /\ dl_result.aborts = <<>>

\* C15 happens: a name with an allowed extension in capitals passes the
\* check and the guard, exists and is served
C15_Witness ==
    /\ dl_filename = <<A_x \o <<".", "T", "x", "T">>>>
    /\ dl_result.served = dl_filename
    /\ Len(dl_result.trace) = 4
    /\ dl_result.trace[2] = Step("secure_path", TRUE)

====
